---- MODULE Spec2Model ----
(***************************************************************************)
(* Plex -> YouTube scrobbler: the webhook handler (app.py), the payload    *)
(* parser (plex_parser.py) and the Plex server client (plex_client.py).    *)
(*                                                                         *)
(* Python strings are sequences of one-character strings.  A Python dict   *)
(* is a function whose DOMAIN is the set of keys that are present.         *)
(***************************************************************************)
EXTENDS Integers, Sequences, FiniteSets, TLC

(***************************************************************************)
(* Bounds of the model.                                                    *)
(***************************************************************************)
MaxMedia == 2
MaxParts == 2
MaxFiles == 3
MaxRequests == 2
NumThreads == 2

(***************************************************************************)
(* Python values.                                                          *)
(***************************************************************************)
\* Python's None where a string is expected: no string has a 4-character element.
None == <<"None">>

\* dict.get(key, default)
Get(d, k, default) == IF k \in DOMAIN d THEN d[k] ELSE default

\* the empty dict {}
EmptyDict == [k \in {} |-> None]

\* truth value of a string result (None and '' are falsy)
Truthy(s) == s # None /\ s # <<>>

\* Python's None where a dict is expected
NoneObj == [isNone |-> TRUE]

\* "not d" for a dict or None: None and {} are falsy
Falsy(d) == DOMAIN d = {} \/ d = NoneObj

Rep(c, n) == [i \in 1..n |-> c]

Min(S) == CHOOSE x \in S : \A y \in S : x <= y

(***************************************************************************)
(* Regular expressions of the extractors.                                  *)
(***************************************************************************)
\* {11} of the patterns
IdLen == 11

\* the lower-case letters that the URL patterns spell
UrlLetters == {"y", "o", "u", "t", "b", "e", "c", "m", "w", "h", "v", "d"}

\* [a-zA-Z0-9_-] : one representative of each range, the two literals, and
\* the letters of the URL patterns
IdAlphabet == {"a", "B", "3", "_", "-"} \cup UrlLetters

\* \w : letters, digits and the underscore; not the hyphen
WordChars == {"a", "B", "3", "_"} \cup UrlLetters

\* \[([a-zA-Z0-9_-]{11})\] matched at position i of s
BracketAt(s, i) ==
    /\ i + IdLen + 1 <= Len(s)
    /\ s[i] = "["
    /\ \A j \in 1..IdLen : s[i + j] \in IdAlphabet
    /\ s[i + IdLen + 1] = "]"

\* \.\w+$ matched at position k of s; $ matches at the end of the string
\* and before a newline that ends the string
ExtAt(s, k) ==
    /\ k + 1 <= Len(s)
    /\ s[k] = "."
    /\ \E e \in (k + 1)..Len(s) :
          /\ \A j \in (k + 1)..e : s[j] \in WordChars
          /\ \/ e = Len(s)
             \/ e = Len(s) - 1 /\ s[Len(s)] = "\n"

\* re.search(r'\[([a-zA-Z0-9_-]{11})\]\.\w+$', s): group(1) of the leftmost
\* match, or None
SearchFilePattern(s) ==
    LET M == {i \in 1..Len(s) : BracketAt(s, i) /\ ExtAt(s, i + IdLen + 2)}
    IN  IF M = {} THEN None ELSE SubSeq(s, Min(M) + 1, Min(M) + IdLen)

\* re.search(r'\[([a-zA-Z0-9_-]{11})\]', s): group(1) of the leftmost match,
\* or None
SearchBracketPattern(s) ==
    LET M == {i \in 1..Len(s) : BracketAt(s, i)}
    IN  IF M = {} THEN None ELSE SubSeq(s, Min(M) + 1, Min(M) + IdLen)

(***************************************************************************)
(* plex_client.py                                                          *)
(***************************************************************************)
\* server.fetchItem raised (unknown key, server unreachable)
FetchRaises == [raises |-> TRUE]

\* the loops over media_item.media and media.parts, appending part.file
RECURSIVE FlattenItemFiles(_)
FlattenItemFiles(media) ==
    IF media = <<>> THEN <<>>
    ELSE Head(media) \o FlattenItemFiles(Tail(media))

\* PlexClient.get_media_metadata: the metadata dict, None when anything raised
get_media_metadata(server, rating_key) ==
    LET media_item == server[rating_key]
    IN  IF media_item = FetchRaises THEN NoneObj
        ELSE [title |-> media_item.title,
              rating_key |-> rating_key,
              files |-> IF "media" \in DOMAIN media_item
                        THEN FlattenItemFiles(media_item.media)
                        ELSE <<>>]

\* a scan that keeps the last match instead of returning at the first
RECURSIVE extract_youtube_id_from_files_last(_)
extract_youtube_id_from_files_last(file_paths) ==
    IF file_paths = <<>> THEN None
    ELSE LET later == extract_youtube_id_from_files_last(Tail(file_paths))
         IN  IF later # None THEN later
             ELSE SearchFilePattern(Head(file_paths))

\* PlexClient.extract_youtube_id_from_files: for file_path in file_paths,
\* return at the first match
RECURSIVE extract_youtube_id_from_files_loop(_)
extract_youtube_id_from_files_loop(file_paths) ==
    IF file_paths = <<>> THEN None
    ELSE LET match == SearchFilePattern(Head(file_paths))
         IN  IF match # None THEN match
             ELSE extract_youtube_id_from_files_loop(Tail(file_paths))

extract_youtube_id_from_files(file_paths) ==
    extract_youtube_id_from_files_loop(file_paths)

\* PlexClient.get_youtube_id_from_rating_key
get_youtube_id_from_rating_key(server, rating_key) ==
    LET metadata == get_media_metadata(server, rating_key)
    IN  IF Falsy(metadata) THEN None
        ELSE LET youtube_id == IF metadata.files # <<>>
                               THEN extract_youtube_id_from_files(metadata.files)
                               ELSE None
             IN  IF Truthy(youtube_id) THEN youtube_id
                 ELSE SearchBracketPattern(Get(metadata, "title", <<>>))

(***************************************************************************)
(* plex_parser.py                                                          *)
(***************************************************************************)
\* for part in parts: file_path = part.get('file', ''); a non-empty path is
\* searched and the first match returned
RECURSIVE ScanParts(_)
ScanParts(parts) ==
    IF parts = <<>> THEN None
    ELSE LET file_path == Get(Head(parts), "file", <<>>)
             match == IF file_path # <<>> THEN SearchFilePattern(file_path)
                      ELSE None
         IN  IF match # None THEN match ELSE ScanParts(Tail(parts))

\* for media_item in media: parts = media_item.get('Part', [])
RECURSIVE ScanMedia(_)
ScanMedia(media) ==
    IF media = <<>> THEN None
    ELSE LET parts == Get(Head(media), "Part", <<>>)
             match == IF parts # <<>> THEN ScanParts(parts) ELSE None
         IN  IF match # None THEN match ELSE ScanMedia(Tail(media))

\* the three methods of _extract_youtube_id_from_webhook, each on the
\* payload's Metadata
MethodFiles(metadata) ==
    LET media == Get(metadata, "Media", <<>>)
    IN  IF media # <<>> THEN ScanMedia(media) ELSE None

MethodTitle(metadata) == SearchBracketPattern(Get(metadata, "title", <<>>))

MethodOriginalTitle(metadata) ==
    SearchBracketPattern(Get(metadata, "originalTitle", <<>>))

\* an orchestration that looks at the title before the files
extract_youtube_id_from_webhook_title_first(payload) ==
    LET metadata == Get(payload, "Metadata", EmptyDict)
        t == MethodTitle(metadata)
        f == MethodFiles(metadata)
        o == MethodOriginalTitle(metadata)
    IN  IF t # None THEN [val |-> t, tried |-> <<"title">>]
        ELSE IF f # None THEN [val |-> f, tried |-> <<"title", "files">>]
        ELSE [val |-> o, tried |-> <<"title", "files", "originalTitle">>]

\* PlexWebhookParser._extract_youtube_id_from_webhook: val is the value
\* returned, tried the methods run before the return
extract_youtube_id_from_webhook(payload) ==
    LET metadata == Get(payload, "Metadata", EmptyDict)
        f == MethodFiles(metadata)
        t == MethodTitle(metadata)
        o == MethodOriginalTitle(metadata)
    IN  IF f # None THEN [val |-> f, tried |-> <<"files">>]
        ELSE IF t # None THEN [val |-> t, tried |-> <<"files", "title">>]
        ELSE [val |-> o, tried |-> <<"files", "title", "originalTitle">>]

\* PlexWebhookParser.get_rating_key
get_rating_key(payload) ==
    Get(Get(payload, "Metadata", EmptyDict), "ratingKey", None)

\* self.plex_client of a parser constructed without a client
NoClient == [noClient |-> TRUE]

\* an extract_youtube_id that runs the payload extraction as well when the
\* lookup has answered, and prefers the payload's identifier
extract_youtube_id_payload_wins(plex_client, payload) ==
    LET rating_key == get_rating_key(payload)
        looked == plex_client # NoClient /\ Truthy(rating_key)
        youtube_id == IF looked
                      THEN get_youtube_id_from_rating_key(plex_client.server, rating_key)
                      ELSE None
        w == extract_youtube_id_from_webhook(payload)
    IN  [val |-> IF w.val # None THEN w.val ELSE youtube_id,
         looked |-> looked,
         lookupRaised |-> looked /\ plex_client.server[rating_key] = FetchRaises,
         fellBack |-> TRUE,
         tried |-> w.tried]

\* PlexWebhookParser.extract_youtube_id on a parser whose plex_client is the
\* first argument: val is the value returned, looked whether the server was
\* asked, lookupRaised whether fetchItem raised, fellBack whether
\* _extract_youtube_id_from_webhook ran, tried the payload methods it ran
extract_youtube_id(plex_client, payload) ==
    LET rating_key == get_rating_key(payload)
        looked == plex_client # NoClient /\ Truthy(rating_key)
        youtube_id == IF looked
                      THEN get_youtube_id_from_rating_key(plex_client.server, rating_key)
                      ELSE None
        w == extract_youtube_id_from_webhook(payload)
    IN  IF Truthy(youtube_id)
        THEN [val |-> youtube_id, looked |-> TRUE, lookupRaised |-> FALSE,
              fellBack |-> FALSE, tried |-> <<>>]
        ELSE [val |-> w.val, looked |-> looked,
              lookupRaised |-> looked /\ plex_client.server[rating_key] = FetchRaises,
              fellBack |-> TRUE, tried |-> w.tried]

\* PlexWebhookParser.parse_payload: the decoded payload, None when the field
\* is missing or empty or is not JSON.  The text of the field is
\* [kind |-> "empty"], [kind |-> "malformed"] or [kind |-> "json", value |-> v]
\* for the JSON text of v, which json.loads decodes to v.
parse_payload(form_data) ==
    IF "payload" \notin DOMAIN form_data THEN NoneObj
    ELSE LET payload_json == form_data["payload"]
         IN  IF payload_json.kind = "empty" THEN NoneObj
             ELSE IF payload_json.kind = "malformed" THEN NoneObj
             ELSE payload_json.value

\* a watch decision that applies the percentage threshold to media.stop
is_video_watched_percentage(payload, min_percentage) ==
    LET event == Get(payload, "event", "None")
        metadata == Get(payload, "Metadata", EmptyDict)
        duration == Get(metadata, "duration", 0)
        viewOffset == Get(metadata, "viewOffset", 0)
    IN  \/ event = "media.scrobble"
        \/ /\ event = "media.stop"
           /\ duration > 0
           /\ viewOffset * 100 >= min_percentage * duration

\* a watch decision that wants progress data with the scrobble event
is_video_watched_needs_progress(payload, min_percentage) ==
    /\ Get(payload, "event", "None") = "media.scrobble"
    /\ "viewOffset" \in DOMAIN Get(payload, "Metadata", EmptyDict)

\* PlexWebhookParser.is_video_watched
is_video_watched(payload, min_percentage) ==
    LET event == Get(payload, "event", "None")
    IN  IF event = "media.scrobble" THEN TRUE ELSE FALSE

\* 'Unknown' as the default of a string that is searched (the title)
Unknown == <<"U", "n", "k", "n", "o", "w", "n">>

\* a projection that reads the keys without defaults
get_video_info_no_defaults(payload) ==
    [title |-> payload["Metadata"]["title"],
     type |-> payload["Metadata"]["type"],
     library_section_title |-> payload["Metadata"]["librarySectionTitle"],
     duration |-> payload["Metadata"]["duration"],
     view_offset |-> payload["Metadata"]["viewOffset"],
     user |-> payload["Account"]["title"],
     event |-> payload["event"]]

\* PlexWebhookParser.get_video_info
get_video_info(payload) ==
    LET metadata == Get(payload, "Metadata", EmptyDict)
        account == Get(payload, "Account", EmptyDict)
    IN  [title |-> Get(metadata, "title", Unknown),
         type |-> Get(metadata, "type", "Unknown"),
         library_section_title |-> Get(metadata, "librarySectionTitle", "Unknown"),
         duration |-> Get(metadata, "duration", 0),
         view_offset |-> Get(metadata, "viewOffset", 0),
         user |-> Get(account, "title", "Unknown"),
         event |-> Get(payload, "event", "Unknown")]

\* [a-zA-Z0-9_-]{11} matched at position i of s
IdRunAt(s, i) ==
    /\ i + IdLen - 1 <= Len(s)
    /\ \A j \in 0..(IdLen - 1) : s[i + j] \in IdAlphabet

\* re.match(r'^[a-zA-Z0-9_-]{11}$', s); s has no newline
MatchesIdGrammar(s) == Len(s) = IdLen /\ IdRunAt(s, 1)

\* the literal text lit matched at position i of s
LitAt(s, i, lit) ==
    /\ i + Len(lit) - 1 <= Len(s)
    /\ SubSeq(s, i, i + Len(lit) - 1) = lit

\* youtube\.com\/
YoutubeCom == <<"y", "o", "u", "t", "u", "b", "e", ".", "c", "o", "m", "/">>

\* the literal prefixes of youtube_patterns, in the order they are tried:
\* the two alternatives of the first pattern, then the other two patterns
UrlPrefixes ==
    << {YoutubeCom \o <<"w", "a", "t", "c", "h", "?", "v", "=">>,
        <<"y", "o", "u", "t", "u", ".", "b", "e", "/">>},
       {YoutubeCom \o <<"e", "m", "b", "e", "d", "/">>},
       {YoutubeCom \o <<"v", "/">>} >>

\* re.search(pattern, s) for the pattern of the prefixes lits followed by
\* ([a-zA-Z0-9_-]{11}): group(1) of the leftmost match, or None
SearchUrlPattern(s, lits) ==
    LET M == {i \in 1..Len(s) :
                 \E lit \in lits : LitAt(s, i, lit) /\ IdRunAt(s, i + Len(lit))}
    IN  IF M = {} THEN None
        ELSE LET lit == CHOOSE l \in lits :
                            LitAt(s, Min(M), l) /\ IdRunAt(s, Min(M) + Len(l))
             IN  SubSeq(s, Min(M) + Len(lit), Min(M) + Len(lit) + IdLen - 1)

\* for pattern in youtube_patterns: return the first match's group(1)
RECURSIVE SearchUrlPatterns(_, _)
SearchUrlPatterns(s, patterns) ==
    IF patterns = <<>> THEN None
    ELSE LET match == SearchUrlPattern(s, Head(patterns))
         IN  IF match # None THEN match
             ELSE SearchUrlPatterns(s, Tail(patterns))

\* PlexWebhookParser._extract_id_from_string
extract_id_from_string(text) ==
    IF text = None \/ text = <<>> THEN None
    ELSE LET M == {i \in 1..Len(text) : IdRunAt(text, i)}
             potential_id == SubSeq(text, Min(M), Min(M) + IdLen - 1)
         IN  IF M # {} /\ MatchesIdGrammar(potential_id) THEN potential_id
             ELSE SearchUrlPatterns(text, UrlPrefixes)

(***************************************************************************)
(* Inputs.                                                                 *)
(***************************************************************************)
SeqsUpTo(S, n) == UNION {[1..k -> S] : k \in 0..n}

\* a dict that has key k with a value of Vals, or does not have it
Opt(k, Vals) == {EmptyDict} \cup {k :> v : v \in Vals}

IdA == Rep("a", IdLen)
IdB == Rep("B", IdLen - 2) \o <<"_", "-">>
IdC == Rep("3", IdLen)
IdS == <<"-">> \o Rep("a", IdLen - 1)

PathPlain == <<"/", "n", "o", ".", "w">>
PathA == <<"/", "a", " ", "[">> \o IdA \o <<"]", ".", "w">>
PathB == <<"/", "B", " ", "[">> \o IdB \o <<"]", ".", "w", "3">>
PathS == <<"[">> \o IdS \o <<"]", ".", "a">>
\* a token of ten characters, of twelve, and one with a character that is
\* not of the alphabet
PathShort == <<"/", "[">> \o Rep("a", IdLen - 1) \o <<"]", ".", "w">>
PathLong == <<"[">> \o Rep("a", IdLen + 1) \o <<"]", ".", "w">>
PathBadChar == <<"[">> \o Rep("a", IdLen - 1) \o <<" ", "]", ".", "w">>
\* the token is not followed by an extension that ends the path
PathNoExt == <<"[">> \o IdA \o <<"]">>
PathDot == <<"[">> \o IdA \o <<"]", ".">>
PathHyphenExt == <<"[">> \o IdA \o <<"]", ".", "w", "-", "w">>
PathTrail == <<"[">> \o IdA \o <<"]", ".", "w", " ">>
\* two bracketed tokens, the second one before the extension
PathTwo == <<"[">> \o IdA \o <<"]", " ", "[">> \o IdB \o <<"]", ".", "w">>
\* a newline after the extension
PathNewline == <<"[">> \o IdC \o <<"]", ".", "w", "\n">>

PathsOfWebhook == {<<>>, PathShort, PathA, PathB}

PathsOfFiles ==
    {<<>>, PathPlain, PathA, PathB, PathShort, PathLong, PathBadChar,
     PathNoExt, PathDot, PathHyphenExt, PathTrail, PathTwo, PathNewline}

TitlePlain == <<"a", " ", "-", " ", "B">>
TitleB == <<"a", " ", "[">> \o IdB \o <<"]">>
TitleMid == <<"[">> \o Rep("a", IdLen - 1) \o <<"]", "[">> \o IdC \o <<"]", " ", "a">>
TitleC == <<"[">> \o IdC \o <<"]">>

Parts(paths) == {[file |-> path] : path \in paths}

Containers(paths) == Opt("Part", SeqsUpTo(Parts(paths), MaxParts))

Medias(paths) == SeqsUpTo(Containers(paths), MaxMedia)

\* the payloads given to _extract_youtube_id_from_webhook; the last ones
\* have a part without a file
PayloadsOfWebhook ==
    {EmptyDict} \cup
    {"Metadata" :> (("Media" :> <<[Part |-> parts]>>) @@ t) :
        parts \in {<<EmptyDict>>, <<EmptyDict, [file |-> PathA]>>},
        t \in Opt("title", {TitleB})} \cup
    {"Metadata" :> (m @@ t @@ o) :
        m \in Opt("Media", Medias(PathsOfWebhook)),
        t \in Opt("title", {TitlePlain, TitleB, TitleMid}),
        o \in Opt("originalTitle", {TitleC})}

RatingKeys == {<<"1">>, <<"2">>}

\* what server.fetchItem finds: an item with a title and, unless it has no
\* media attribute, its media as a list of lists of part files
ServerItems ==
    {("title" :> t) @@ m :
        t \in {TitlePlain, TitleB},
        m \in Opt("media", {<<>>, <<<<PathS>>>>, <<<<PathShort>>, <<PathPlain, PathS>>>>})}

Servers == [RatingKeys -> {FetchRaises} \cup ServerItems]

PlexClients == {NoClient} \cup {[server |-> sv] : sv \in Servers}

\* the payloads given to extract_youtube_id
PayloadsOfExtract ==
    {EmptyDict} \cup
    {"Metadata" :> (k @@ m @@ t) :
        k \in Opt("ratingKey", RatingKeys \cup {<<>>}),
        m \in Opt("Media", {<<[Part |-> <<[file |-> PathA]>>]>>}),
        t \in Opt("title", {TitleC})}

(***************************************************************************)
(* The parser's and the client's functions, called one at a time.          *)
(***************************************************************************)
VARIABLES call

NoCall == [fn |-> "none"]

\* the payloads and thresholds given to is_video_watched
PayloadsOfWatch ==
    {e @@ md :
        e \in Opt("event", {"media.scrobble", "media.stop", "media.play"}),
        md \in Opt("Metadata",
                   {d @@ v : d \in Opt("duration", {0 - 1, 0, 10}),
                             v \in Opt("viewOffset", {0, 5, 9, 10})})}

Thresholds == {0, 50, 90, 100}

CallIsVideoWatched ==
    /\ call = NoCall
    /\ \E p \in PayloadsOfWatch, min_percentage \in Thresholds :
          call' = [fn |-> "is_video_watched",
                   payload |-> p,
                   min_percentage |-> min_percentage,
                   ret |-> is_video_watched(p, min_percentage)]

\* the texts given to _extract_id_from_string: nothing, a bare identifier,
\* runs of identifier characters that are shorter and longer than one, a
\* bracketed identifier, and the URL shapes
IdRun12 == Rep("a", IdLen) \o <<"B">>

TextsOfString ==
    {None, <<>>, TitlePlain, IdA, IdRun12, Rep("a", IdLen - 1), TitleB,
     <<"a", " ">> \o IdRun12 \o <<" ", "a">>,
     YoutubeCom \o <<"w", "a", "t", "c", "h", "?", "v", "=">> \o IdB,
     YoutubeCom \o <<"e", "m", "b", "e", "d", "/">> \o IdC,
     YoutubeCom \o <<"v", "/">> \o IdA,
     <<"y", "o", "u", "t", "u", ".", "b", "e", "/">> \o IdB \o <<"?", "t">>,
     YoutubeCom \o <<"v", "/">> \o Rep("3", IdLen - 1)}

CallExtractIdFromString ==
    /\ call = NoCall
    /\ \E text \in TextsOfString :
          call' = [fn |-> "_extract_id_from_string",
                   text |-> text,
                   ret |-> extract_id_from_string(text)]

CallExtractFromFiles ==
    /\ call = NoCall
    /\ \E file_paths \in SeqsUpTo(PathsOfFiles, MaxFiles) :
          call' = [fn |-> "extract_youtube_id_from_files",
                   file_paths |-> file_paths,
                   ret |-> extract_youtube_id_from_files(file_paths)]

CallExtractFromWebhook ==
    /\ call = NoCall
    /\ \E p \in PayloadsOfWebhook :
          call' = [fn |-> "_extract_youtube_id_from_webhook",
                   payload |-> p,
                   ret |-> extract_youtube_id_from_webhook(p)]

CallExtractYoutubeId ==
    /\ call = NoCall
    /\ \E c \in PlexClients, p \in PayloadsOfExtract :
          call' = [fn |-> "extract_youtube_id",
                   plex_client |-> c,
                   payload |-> p,
                   ret |-> extract_youtube_id(c, p)]

(***************************************************************************)
(* app.py: the webhook handler, one request at a time.                     *)
(***************************************************************************)
\* the payloads that reach the handler
Events == {"media.scrobble", "media.stop", "media.play"}

MetadataOfHandler ==
    {l @@ t @@ d @@ v @@ m :
        l \in Opt("librarySectionTitle", {"YouTube", "Movies"}),
        t \in Opt("title", {TitleB}),
        d \in Opt("duration", {0, 10}),
        v \in Opt("viewOffset", {5, 10}),
        m \in Opt("Media", {<<[Part |-> <<[file |-> PathA]>>]>>})}

PayloadsOfHandler ==
    {e @@ md @@ a :
        e \in Opt("event", Events),
        md \in Opt("Metadata", MetadataOfHandler),
        a \in Opt("Account", {EmptyDict, [title |-> "alice"]})}

\* request.form: without the payload field, with an empty one, with one that
\* is not JSON, with the JSON text of a payload
Forms ==
    {EmptyDict, [payload |-> [kind |-> "empty"]], [payload |-> [kind |-> "malformed"]]}
    \cup {[payload |-> [kind |-> "json", value |-> p]] : p \in PayloadsOfHandler}

\* PLEX_LIBRARY_FILTER: [] when the variable is unset or empty, else its
\* comma-separated names
LibraryFilters == {<<>>, <<"YouTube">>, <<"YouTube", "Music">>}

\* MIN_WATCH_PERCENTAGE
MinPercentages == {0, 90, 100}

\* what the handler finds outside: whether the cookies file exists and
\* whether yt-dlp marks the video
Environments == [cookies : BOOLEAN, markOk : BOOLEAN]

VARIABLES pc, served, form, env, payload, video_info, response, calls,
          PLEX_LIBRARY_FILTER, MIN_WATCH_PERCENTAGE, youtube_client,
          threads, world

vars == <<call, pc, served, form, env, payload, video_info, response, calls,
          PLEX_LIBRARY_FILTER, MIN_WATCH_PERCENTAGE, youtube_client,
          threads, world>>

config == <<PLEX_LIBRARY_FILTER, MIN_WATCH_PERCENTAGE>>

NoResponse == [code |-> 0, status |-> "none", reason |-> "none"]

Response(code, status, reason) ==
    [code |-> code, status |-> status, reason |-> reason]

NoInfo == [none |-> TRUE]

InList(x, list) == \E i \in 1..Len(list) : list[i] = x

\* def extract_youtube_id(self, payload): the parameters of the method
ExtractParams == 2

\* PlexWebhookParser.extract_youtube_id(payload): the arguments of the call;
\* the method is looked up on the class, so no instance is bound to self
ExtractArgs == 1

\* a request arrives
Receive ==
    /\ pc = "idle"
    /\ served < MaxRequests
    /\ \E f \in Forms, e \in Environments :
          /\ form' = f
          /\ env' = e
    /\ pc' = "parse"
    /\ payload' = NoneObj
    /\ video_info' = NoInfo
    /\ response' = NoResponse
    /\ calls' = <<>>
    /\ UNCHANGED <<threads, world, call, served, config, youtube_client>>

\* payload = PlexWebhookParser.parse_payload(request.form);
\* if not payload: 400
ParsePayload ==
    /\ pc = "parse"
    /\ payload' = parse_payload(form)
    /\ calls' = Append(calls, "parse_payload")
    /\ IF Falsy(payload')
       THEN /\ response' = Response(400, "error", "Invalid payload")
            /\ pc' = "done"
       ELSE /\ response' = response
            /\ pc' = "info"
    /\ UNCHANGED <<threads, world, call, served, form, env, video_info, config, youtube_client>>

\* video_info = PlexWebhookParser.get_video_info(payload)
GetVideoInfo ==
    /\ pc = "info"
    /\ video_info' = get_video_info(payload)
    /\ calls' = Append(calls, "get_video_info")
    /\ pc' = "filter"
    /\ UNCHANGED <<threads, world, call, served, form, env, payload, response, config, youtube_client>>

\* a handler without the library filter
LibraryFilterNever ==
    /\ pc = "filter"
    /\ response' = response
    /\ pc' = "watch"
    /\ UNCHANGED <<threads, world, call, served, form, env, payload, video_info, calls, config,
                   youtube_client>>

\* if PLEX_LIBRARY_FILTER: if library not in PLEX_LIBRARY_FILTER: skipped
LibraryFilter ==
    /\ pc = "filter"
    /\ IF /\ PLEX_LIBRARY_FILTER # <<>>
          /\ ~InList(video_info.library_section_title, PLEX_LIBRARY_FILTER)
       THEN /\ response' = Response(200, "skipped", "library_filter")
            /\ pc' = "done"
       ELSE /\ response' = response
            /\ pc' = "watch"
    /\ UNCHANGED <<threads, world, call, served, form, env, payload, video_info, calls, config,
                   youtube_client>>

\* a handler that goes on to the extraction whatever the decision
CheckWatchedIgnored ==
    /\ pc = "watch"
    /\ calls' = Append(calls, "is_video_watched")
    /\ response' = response
    /\ pc' = "extract"
    /\ UNCHANGED <<threads, world, call, served, form, env, payload, video_info, config, youtube_client>>

\* if not PlexWebhookParser.is_video_watched(payload, MIN_WATCH_PERCENTAGE):
\* skipped
CheckWatched ==
    /\ pc = "watch"
    /\ calls' = Append(calls, "is_video_watched")
    /\ IF ~is_video_watched(payload, MIN_WATCH_PERCENTAGE)
       THEN /\ response' = Response(200, "skipped", "not_watched")
            /\ pc' = "done"
       ELSE /\ response' = response
            /\ pc' = "extract"
    /\ UNCHANGED <<threads, world, call, served, form, env, payload, video_info, config, youtube_client>>

\* the rest of the try block and its except clause:
\*   youtube_id = PlexWebhookParser.extract_youtube_id(payload)
\*   if not youtube_id: skipped
\*   yt_client = init_youtube_client()
\*   success = yt_client.mark_as_watched(youtube_id)
\*   except Exception: 500
\* The call of extract_youtube_id raises TypeError when its arguments do not
\* fill the parameters; init_youtube_client raises when the cookies file
\* does not exist.
ExtractAndScrobble ==
    /\ pc = "extract"
    /\ pc' = "done"
    /\ IF ExtractArgs # ExtractParams
       THEN /\ calls' = Append(calls, "extract_youtube_id")
            /\ response' = Response(500, "error", "TypeError")
            /\ youtube_client' = youtube_client
       ELSE LET youtube_id == extract_youtube_id(NoClient, payload).val
            IN  IF ~Truthy(youtube_id)
                THEN /\ calls' = Append(calls, "extract_youtube_id")
                     /\ response' = Response(200, "skipped", "no_youtube_id")
                     /\ youtube_client' = youtube_client
                ELSE IF youtube_client = "None" /\ ~env.cookies
                THEN /\ calls' = calls \o <<"extract_youtube_id", "init_youtube_client">>
                     /\ response' = Response(500, "error", "FileNotFoundError")
                     /\ youtube_client' = youtube_client
                ELSE /\ calls' = calls \o <<"extract_youtube_id", "init_youtube_client",
                                            "mark_as_watched">>
                     /\ youtube_client' = "YouTubeClient"
                     /\ response' =
                          IF env.markOk
                          THEN [code |-> 200, status |-> "success", reason |-> "none",
                                youtube_id |-> youtube_id]
                          ELSE Response(500, "error",
                                        "Failed to mark as watched on YouTube")
    /\ UNCHANGED <<threads, world, call, served, form, env, payload, video_info, config>>

\* the response is sent, the request's locals are gone and the handler waits
\* for the next request
Respond ==
    /\ pc = "done"
    /\ pc' = "idle"
    /\ form' = EmptyDict
    /\ env' = [cookies |-> TRUE, markOk |-> TRUE]
    /\ payload' = NoneObj
    /\ video_info' = NoInfo
    /\ response' = NoResponse
    /\ calls' = <<>>
    /\ served' = served + 1
    /\ UNCHANGED <<threads, world, call, config, youtube_client>>

\* the threads that serve /test, each between two requests
Threads == 1..NumThreads

IdleThread == [pc |-> "idle", video_id |-> None, made |-> "None",
               yt_client |-> "None", code |-> 0]

\* the cookies file exists, no client was constructed, no copy written
NewWorld == [cookies |-> TRUE, constructed |-> 0, copies |-> 0]

HandlerIdle ==
    /\ threads = [t \in Threads |-> IdleThread]
    /\ pc = "idle"
    /\ served = 0
    /\ form = EmptyDict
    /\ env = [cookies |-> TRUE, markOk |-> TRUE]
    /\ payload = NoneObj
    /\ video_info = NoInfo
    /\ response = NoResponse
    /\ calls = <<>>
    /\ youtube_client = "None"

Init ==
    /\ call = NoCall
    /\ HandlerIdle
    /\ world = NewWorld
    /\ PLEX_LIBRARY_FILTER \in LibraryFilters
    /\ MIN_WATCH_PERCENTAGE \in MinPercentages

Next ==
    \/ Receive
    \/ ParsePayload
    \/ GetVideoInfo
    \/ LibraryFilter
    \/ CheckWatched
    \/ ExtractAndScrobble
    \/ Respond

Spec == Init /\ [][Next]_vars

\* the functions of the parser and of the client, applied to their inputs
handler == <<threads, world, pc, served, form, env, payload, video_info, response, calls,
             PLEX_LIBRARY_FILTER, MIN_WATCH_PERCENTAGE, youtube_client>>

InitFunctions ==
    /\ call = NoCall
    /\ HandlerIdle
    /\ world = NewWorld
    /\ PLEX_LIBRARY_FILTER = <<>>
    /\ MIN_WATCH_PERCENTAGE = 90

NextFunctions ==
    \/ CallIsVideoWatched /\ UNCHANGED handler
    \/ CallExtractFromFiles /\ UNCHANGED handler
    \/ CallExtractFromWebhook /\ UNCHANGED handler
    \/ CallExtractYoutubeId /\ UNCHANGED handler
    \/ CallExtractIdFromString /\ UNCHANGED handler

SpecFunctions == InitFunctions /\ [][NextFunctions]_vars

(***************************************************************************)
(* app.py and youtube_client.py: the /test route, served by several        *)
(* threads at once.  It is the route that reaches init_youtube_client.     *)
(* youtube_client is "None", or the client that was assigned last:         *)
(* "YouTubeClient" when its cookies_file is the copy in the temporary      *)
(* directory, "YouTubeClientOriginal" when the copy failed and it is the   *)
(* original file.  Every copy has the same path.                           *)
(***************************************************************************)
\* YouTubeClient.extract_video_id
extract_video_id(url_or_id) ==
    IF url_or_id = None \/ url_or_id = <<>> THEN None
    ELSE IF MatchesIdGrammar(url_or_id) THEN url_or_id
    ELSE SearchUrlPatterns(url_or_id, UrlPrefixes)

\* the video_id parameters of the requests
VideoIds == {None, IdA, Rep("a", IdLen - 1)}

webhook == <<call, pc, served, form, env, payload, video_info, response, calls,
             PLEX_LIBRARY_FILTER, MIN_WATCH_PERCENTAGE>>

Step(t, fields) == threads' = [threads EXCEPT ![t] = fields @@ threads[t]]

\* video_id = request.args.get('video_id'); if not video_id: 400
TestReceive(t) ==
    /\ threads[t].pc = "idle"
    /\ \E video_id \in VideoIds :
          IF video_id = None
          THEN Step(t, [pc |-> "done", video_id |-> video_id, code |-> 400])
          ELSE Step(t, [pc |-> "init", video_id |-> video_id])
    /\ UNCHANGED <<webhook, youtube_client, world>>

\* init_youtube_client: if youtube_client is None
InitCheck(t) ==
    /\ threads[t].pc = "init"
    /\ IF youtube_client = "None"
       THEN Step(t, [pc |-> "construct"])
       ELSE Step(t, [pc |-> "return"])
    /\ UNCHANGED <<webhook, youtube_client, world>>

\* YouTubeClient.__init__: FileNotFoundError when the cookies file does not
\* exist, which init_youtube_client raises again and test_youtube answers
\* with 500; else shutil.copy2 starts to write the copy
ConstructBegin(t) ==
    /\ threads[t].pc = "construct"
    /\ IF ~world.cookies
       THEN Step(t, [pc |-> "done", code |-> 500])
       ELSE Step(t, [pc |-> "copy"])
    /\ UNCHANGED <<webhook, youtube_client, world>>

\* shutil.copy2 ends: the copy is written, or it failed and the client uses
\* the original file
ConstructEnd(t) ==
    /\ threads[t].pc = "copy"
    /\ \E copied \in BOOLEAN :
          /\ Step(t, [pc |-> "assign",
                      made |-> IF copied THEN "YouTubeClient"
                               ELSE "YouTubeClientOriginal"])
          /\ world' = [world EXCEPT !.constructed = @ + 1,
                                    !.copies = IF copied THEN @ + 1 ELSE @]
    /\ UNCHANGED <<webhook, youtube_client>>

\* youtube_client = YouTubeClient(...)
Assign(t) ==
    /\ threads[t].pc = "assign"
    /\ youtube_client' = threads[t].made
    /\ Step(t, [pc |-> "return"])
    /\ UNCHANGED <<webhook, world>>

\* return youtube_client; yt_client = init_youtube_client()
InitReturn(t) ==
    /\ threads[t].pc = "return"
    /\ Step(t, [pc |-> "info", yt_client |-> youtube_client])
    /\ UNCHANGED <<webhook, youtube_client, world>>

\* yt_client.get_video_info(video_id): None without a video id (404), else
\* yt_dlp.YoutubeDL opens with the client's cookiefile
GetInfoBegin(t) ==
    /\ threads[t].pc = "info"
    /\ IF extract_video_id(threads[t].video_id) = None
       THEN Step(t, [pc |-> "done", code |-> 404])
       ELSE Step(t, [pc |-> "using"])
    /\ UNCHANGED <<webhook, youtube_client, world>>

\* extract_info returns and YoutubeDL closes, saving its cookies (200), or
\* it raises and get_video_info returns None (404)
GetInfoEnd(t) ==
    /\ threads[t].pc = "using"
    /\ \E ok \in BOOLEAN :
          Step(t, [pc |-> "done", code |-> IF ok THEN 200 ELSE 404])
    /\ UNCHANGED <<webhook, youtube_client, world>>

\* the response is sent and the thread waits for the next request
TestRespond(t) ==
    /\ threads[t].pc = "done"
    /\ threads' = [threads EXCEPT ![t] = IdleThread]
    /\ UNCHANGED <<webhook, youtube_client, world>>

InitConcurrent ==
    /\ call = NoCall
    /\ HandlerIdle
    /\ PLEX_LIBRARY_FILTER = <<>>
    /\ MIN_WATCH_PERCENTAGE = 90
    /\ world \in {[NewWorld EXCEPT !.cookies = c] : c \in BOOLEAN}

NextConcurrent ==
    \E t \in Threads :
        \/ TestReceive(t)
        \/ InitCheck(t)
        \/ ConstructBegin(t)
        \/ ConstructEnd(t)
        \/ Assign(t)
        \/ InitReturn(t)
        \/ GetInfoBegin(t)
        \/ GetInfoEnd(t)
        \/ TestRespond(t)

SpecConcurrent == InitConcurrent /\ [][NextConcurrent]_vars

(***************************************************************************)
(* Properties of the watch decision (SpecFunctions).                       *)
(***************************************************************************)
WatchCall == call.fn = "is_video_watched"

EventOf(p) == Get(p, "event", "None")

MetadataOf(p) == Get(p, "Metadata", EmptyDict)

\* C1: for every payload whose event is "media.scrobble", is_video_watched
\* returns true, whatever viewOffset, duration and min_percentage are, and
\* also when viewOffset and duration are both absent.
C1_ScrobbleIsWatched ==
    (WatchCall /\ EventOf(call.payload) = "media.scrobble") => call.ret = TRUE

C1_Witness ==
    /\ WatchCall
    /\ EventOf(call.payload) = "media.scrobble"
    /\ DOMAIN MetadataOf(call.payload) = {}
    /\ call.min_percentage = 100
    /\ call.ret = TRUE

\* C2 as stated: for every payload whose event is "media.stop",
\* is_video_watched returns true if and only if duration > 0 and
\* viewOffset * 100 >= minPercentage * duration.
C2_StopUsesPercentage ==
    (WatchCall /\ EventOf(call.payload) = "media.stop") =>
        LET duration == Get(MetadataOf(call.payload), "duration", 0)
            viewOffset == Get(MetadataOf(call.payload), "viewOffset", 0)
        IN  call.ret = (/\ duration > 0
                        /\ viewOffset * 100 >= call.min_percentage * duration)

\* C2 amended: for every payload whose event is "media.stop",
\* is_video_watched returns false, whatever viewOffset, duration and
\* minPercentage are; with a zero, negative or missing duration as well.
C2_StopIsNotWatched ==
    (WatchCall /\ EventOf(call.payload) = "media.stop") => call.ret = FALSE

C2_Witness ==
    /\ WatchCall
    /\ EventOf(call.payload) = "media.stop"
    /\ MetadataOf(call.payload) = [duration |-> 10, viewOffset |-> 10]
    /\ call.min_percentage = 90
    /\ call.ret = FALSE

(***************************************************************************)
(* Properties of the extraction (SpecFunctions).                           *)
(***************************************************************************)
\* an identifier: 11 characters of the alphabet
IsId(tok) == Len(tok) = IdLen /\ \A i \in 1..Len(tok) : tok[i] \in IdAlphabet

\* the lengths n of an extension and nl of a final newline with which the
\* path reads  ... [ identifier ] . extension  to its end
SuffixSplits(path) ==
    {w \in (1..Len(path)) \X {0, 1} :
        LET end == Len(path) - w[2]
            open == end - w[1] - IdLen - 2
        IN  /\ open >= 1
            /\ w[2] = 1 => path[Len(path)] = "\n"
            /\ path[open] = "["
            /\ IsId(SubSeq(path, open + 1, open + IdLen))
            /\ path[open + IdLen + 1] = "]"
            /\ path[open + IdLen + 2] = "."
            /\ \A j \in (open + IdLen + 3)..end : path[j] \in WordChars}

Qualifies(path) == SuffixSplits(path) # {}

TokenOfPath(path) ==
    LET w == CHOOSE x \in SuffixSplits(path) : TRUE
        open == Len(path) - w[2] - w[1] - IdLen - 2
    IN  SubSeq(path, open + 1, open + IdLen)

\* the identifier of the first path of the list that qualifies, if any
FirstQualifying(paths) ==
    LET Q == {i \in 1..Len(paths) : Qualifies(paths[i])}
    IN  IF Q = {} THEN None ELSE TokenOfPath(paths[Min(Q)])

\* Metadata.Media[*].Part[*].file in the payload's order, '' for a part
\* without a file
RECURSIVE FilesOfParts(_)
FilesOfParts(parts) ==
    IF parts = <<>> THEN <<>>
    ELSE <<Get(Head(parts), "file", <<>>)>> \o FilesOfParts(Tail(parts))

RECURSIVE FilesOfMedia(_)
FilesOfMedia(media) ==
    IF media = <<>> THEN <<>>
    ELSE FilesOfParts(Get(Head(media), "Part", <<>>)) \o FilesOfMedia(Tail(media))

FilesOfPayload(p) == FilesOfMedia(Get(MetadataOf(p), "Media", <<>>))

\* the first bracketed identifier of a text, if any
FirstBracketed(text) ==
    LET B == {i \in 1..Len(text) :
                 /\ i + IdLen + 1 <= Len(text)
                 /\ SubSeq(text, i, i) = <<"[">>
                 /\ IsId(SubSeq(text, i + 1, i + IdLen))
                 /\ SubSeq(text, i + IdLen + 1, i + IdLen + 1) = <<"]">>}
    IN  IF B = {} THEN None ELSE SubSeq(text, Min(B) + 1, Min(B) + IdLen)

\* the identifier the payload itself carries: that of its files, else that
\* of its title, else that of its originalTitle, else none
ExpectedFromPayload(p) ==
    LET f == FirstQualifying(FilesOfPayload(p))
        t == FirstBracketed(Get(MetadataOf(p), "title", <<>>))
        o == FirstBracketed(Get(MetadataOf(p), "originalTitle", <<>>))
    IN  IF f # None THEN f ELSE IF t # None THEN t ELSE o

WebhookCall == call.fn = "_extract_youtube_id_from_webhook"

FilesCall == call.fn = "extract_youtube_id_from_files"

\* C4: the extraction from a payload tries the file paths, then the title,
\* then the originalTitle, and stops at the first that yields an identifier:
\* the files' identifier wins over the title's, the title's is returned only
\* when no file matched, the originalTitle's only when neither matched, and
\* the result is absent when nothing matched.
C4_ExtractionOrder ==
    WebhookCall =>
        LET f == FirstQualifying(FilesOfPayload(call.payload))
            t == FirstBracketed(Get(MetadataOf(call.payload), "title", <<>>))
            o == FirstBracketed(Get(MetadataOf(call.payload), "originalTitle", <<>>))
        IN  /\ f # None => call.ret = [val |-> f, tried |-> <<"files">>]
            /\ (f = None /\ t # None) =>
                  call.ret = [val |-> t, tried |-> <<"files", "title">>]
            /\ (f = None /\ t = None) =>
                  call.ret = [val |-> o,
                              tried |-> <<"files", "title", "originalTitle">>]

C4_Witness ==
    /\ WebhookCall
    /\ FilesOfPayload(call.payload) = <<PathShort, PathA>>
    /\ Get(MetadataOf(call.payload), "title", <<>>) = TitleB
    /\ "originalTitle" \in DOMAIN MetadataOf(call.payload)
    /\ call.ret.val = IdA
    /\ IdA # IdB

\* C5: the file-path extraction walks the paths in their order (containers
\* in order, parts in order within a container) and returns the identifier
\* of the first path that ends in a bracketed 11-character token, a dot and
\* an extension (the end being that of the pattern's $); paths before it
\* that are empty or do not match are skipped, paths after it are ignored.
C5_FirstMatchWins ==
    /\ FilesCall => call.ret = FirstQualifying(call.file_paths)
    /\ WebhookCall =>
          LET f == FirstQualifying(FilesOfPayload(call.payload))
          IN  f # None => call.ret.val = f

C5_Witness ==
    /\ FilesCall
    /\ call.file_paths = <<PathPlain, PathB, PathA>>
    /\ call.ret = IdB

\* a second case of C5: the paths of two containers, an empty path first
C5_WitnessWebhook ==
    /\ WebhookCall
    /\ Get(MetadataOf(call.payload), "Media", <<>>)
         = <<[Part |-> <<[file |-> <<>>], [file |-> PathB]>>],
             [Part |-> <<[file |-> PathA]>>]>>
    /\ call.ret.val = IdB

ExtractCall == call.fn = "extract_youtube_id"

\* whether the server is asked: a client is configured and the payload has
\* a ratingKey (one that is not empty)
LookupPossible ==
    /\ call.plex_client # NoClient
    /\ "ratingKey" \in DOMAIN MetadataOf(call.payload)
    /\ MetadataOf(call.payload)["ratingKey"] # <<>>

LookupAnswer ==
    get_youtube_id_from_rating_key(call.plex_client.server,
                                   MetadataOf(call.payload)["ratingKey"])

\* C6: in extract_youtube_id, when a client is configured, the payload has a
\* ratingKey and the lookup returns an identifier, that identifier is
\* returned and the payload's file paths and titles are not consulted; the
\* payload extraction runs only when there is no client, no ratingKey or no
\* answer from the lookup, and its result is returned as it is.
C6_LookupWins ==
    ExtractCall =>
        LET answered == LookupPossible /\ LookupAnswer # None
        IN  /\ answered =>
                  /\ call.ret.val = LookupAnswer
                  /\ ~call.ret.fellBack
                  /\ call.ret.tried = <<>>
            /\ call.ret.fellBack = ~answered
            /\ ~answered =>
                  /\ call.ret.val = ExpectedFromPayload(call.payload)
                  /\ call.ret.tried # <<>>

C6_Witness ==
    /\ ExtractCall
    /\ LookupPossible
    /\ LookupAnswer = IdS
    /\ FilesOfPayload(call.payload) = <<PathA>>
    /\ Get(MetadataOf(call.payload), "title", <<>>) = TitleC
    /\ call.ret.val = IdS
    /\ ~call.ret.fellBack

\* C9 as stated: a lookup that failed is reported as an outcome of its own:
\* extract_youtube_id does not answer "absent" when fetchItem raised.
C9_LookupFailureIsDistinct ==
    (ExtractCall /\ call.ret.lookupRaised) => call.ret.val # None

StringCall == call.fn = "_extract_id_from_string"

\* tok stands in text as a whole token: between the brackets of the naming
\* convention, or with no character of the identifier alphabet next to it
CompleteTokenIn(tok, text) ==
    \E i \in 1..Len(text) :
        /\ i + IdLen - 1 <= Len(text)
        /\ SubSeq(text, i, i + IdLen - 1) = tok
        /\ \/ /\ i > 1 /\ text[i - 1] = "["
              /\ i + IdLen <= Len(text) /\ text[i + IdLen] = "]"
           \/ /\ i = 1 \/ text[i - 1] \notin IdAlphabet
              /\ i + IdLen > Len(text) \/ text[i + IdLen] \notin IdAlphabet

\* the texts an extractor call was given
TextsOfCall ==
    IF FilesCall THEN {call.file_paths[i] : i \in 1..Len(call.file_paths)}
    ELSE IF WebhookCall
    THEN {FilesOfPayload(call.payload)[i] : i \in 1..Len(FilesOfPayload(call.payload))}
         \cup {Get(MetadataOf(call.payload), "title", <<>>),
               Get(MetadataOf(call.payload), "originalTitle", <<>>)}
    ELSE {call.text}

ValueOfCall == IF WebhookCall THEN call.ret.val ELSE call.ret

\* C11 as stated: every value an identifier extractor returns (from file
\* paths, from a title, from free text) is 11 characters of [A-Za-z0-9_-]
\* and a complete token of its text: a piece of a longer run of such
\* characters is returned only when brackets delimit it.
C11_CompleteTokens ==
    ((FilesCall \/ WebhookCall \/ StringCall) /\ ValueOfCall # None) =>
        /\ IsId(ValueOfCall)
        /\ \E text \in TextsOfCall : CompleteTokenIn(ValueOfCall, text)

\* the same of the two bracket extractors alone
C11_BracketExtractorsOnly ==
    ((FilesCall \/ WebhookCall) /\ ValueOfCall # None) =>
        /\ IsId(ValueOfCall)
        /\ \E text \in TextsOfCall : CompleteTokenIn(ValueOfCall, text)

(***************************************************************************)
(* Properties of the webhook handler (Spec).                               *)
(***************************************************************************)
Called(f) == InList(f, calls)

\* the request's form holds the JSON text of a payload
Decodable == "payload" \in DOMAIN form /\ form["payload"].kind = "json"

\* the request is past the library filter's test, and past the watch decision
PastFilter == pc \in {"watch", "extract", "done"} /\ video_info # NoInfo

FilteredOut ==
    /\ PLEX_LIBRARY_FILTER # <<>>
    /\ \A i \in 1..Len(PLEX_LIBRARY_FILTER) :
          PLEX_LIBRARY_FILTER[i] # video_info.library_section_title

\* C3 as stated: a decodable "media.scrobble" payload that passes the
\* library filter and has a file path ending in a bracketed identifier, with
\* a mark-as-watched collaborator that reports success, reaches
\* mark_as_watched with that identifier and is answered 200 "success".
C3_ScrobbleIsMarked ==
    (/\ pc = "done"
     /\ Decodable
     /\ EventOf(form["payload"].value) = "media.scrobble"
     /\ FilesOfPayload(form["payload"].value) = <<PathA>>
     /\ ~FilteredOut
     /\ env.cookies /\ env.markOk)
    => /\ Called("mark_as_watched")
       /\ response.code = 200
       /\ response.status = "success"
       /\ response.youtube_id = IdA

\* C7: when the library filter is not empty and the event's library is not
\* in it, the request ends with 200 skipped "library_filter" before the
\* watch decision: is_video_watched, the extraction and mark_as_watched are
\* not invoked for it; with an empty filter no request ends that way.
C7_LibraryFilterFirst ==
    /\ (PastFilter /\ FilteredOut) =>
          /\ pc = "done"
          /\ response = Response(200, "skipped", "library_filter")
          /\ ~Called("is_video_watched")
          /\ ~Called("extract_youtube_id")
          /\ ~Called("mark_as_watched")
    /\ response.reason = "library_filter" => (PastFilter /\ FilteredOut)
    /\ PLEX_LIBRARY_FILTER = <<>> => response.reason # "library_filter"

C7_Witness ==
    /\ pc = "done"
    /\ response = Response(200, "skipped", "library_filter")
    /\ EventOf(payload) = "media.scrobble"
    /\ video_info.library_section_title = "Movies"
    /\ PLEX_LIBRARY_FILTER = <<"YouTube", "Music">>
    /\ calls = <<"parse_payload", "get_video_info">>

\* a second case of C7: no filter, the same event goes on to the decision
C7_WitnessNoFilter ==
    /\ PLEX_LIBRARY_FILTER = <<>>
    /\ video_info # NoInfo
    /\ video_info.library_section_title = "Movies"
    /\ Called("is_video_watched")

\* C8: whenever the watch decision is "not watched", the request ends with
\* 200 skipped "not_watched" and neither the extraction nor mark_as_watched
\* is invoked for it; a "media.stop" payload without viewOffset and
\* duration ends that way.
C8_NotWatchedStops ==
    /\ (Called("is_video_watched")
        /\ ~is_video_watched(payload, MIN_WATCH_PERCENTAGE)) =>
          /\ pc = "done"
          /\ response = Response(200, "skipped", "not_watched")
          /\ ~Called("extract_youtube_id")
          /\ ~Called("mark_as_watched")
    /\ (Called("is_video_watched")
        /\ EventOf(payload) = "media.stop"
        /\ DOMAIN MetadataOf(payload) \cap {"viewOffset", "duration"} = {}) =>
          response = Response(200, "skipped", "not_watched")
    /\ response.reason = "not_watched" => Called("is_video_watched")

C8_Witness ==
    /\ pc = "done"
    /\ response = Response(200, "skipped", "not_watched")
    /\ EventOf(payload) = "media.stop"
    /\ DOMAIN MetadataOf(payload) = {"title", "Media"}
    /\ ExpectedFromPayload(payload) = IdA
    /\ calls = <<"parse_payload", "get_video_info", "is_video_watched">>

\* C10 as stated: a payload that was decoded, also one without Metadata or
\* Account or with keys missing in them, is not rejected, and its summary
\* has "Unknown" for the missing strings and 0 for the missing numbers.
C10_MissingDataTolerated ==
    (Decodable /\ Called("parse_payload")) =>
        /\ response.code # 400
        /\ Called("get_video_info") =>
              LET p == form["payload"].value
              IN  /\ "title" \notin DOMAIN MetadataOf(p) => video_info.title = Unknown
                  /\ "librarySectionTitle" \notin DOMAIN MetadataOf(p) =>
                        video_info.library_section_title = "Unknown"
                  /\ "duration" \notin DOMAIN MetadataOf(p) => video_info.duration = 0
                  /\ "viewOffset" \notin DOMAIN MetadataOf(p) =>
                        video_info.view_offset = 0
                  /\ "title" \notin DOMAIN Get(p, "Account", EmptyDict) =>
                        video_info.user = "Unknown"
                  /\ "event" \notin DOMAIN p => video_info.event = "Unknown"

(***************************************************************************)
(* Properties of the concurrent /test requests (SpecConcurrent).           *)
(***************************************************************************)
\* the threads that are writing or using the copy of the cookies file
OnTheCopy ==
    {t \in Threads :
        \/ threads[t].pc = "copy"
        \/ threads[t].pc = "using" /\ threads[t].yt_client = "YouTubeClient"}

\* C12 as stated: with requests handled concurrently, init_youtube_client
\* constructs at most one YouTubeClient, the copy of the cookies file is
\* written at most once, and no two requests write or use that copy at the
\* same time.
C12_ExclusiveCredentialCopy ==
    /\ world.constructed <= 1
    /\ world.copies <= 1
    /\ Cardinality(OnTheCopy) <= 1

====
